---- MODULE Spec2Model ----
(***************************************************************************)
(* Model of the turn-taking engine of podcast_engine.py: Podcast.run, the  *)
(* transcript append, Character._call_ollama, the bid parsing and the      *)
(* next-speaker selection.                                                 *)
(*                                                                         *)
(* podcast_engine.py does not compile as it stands: the `for` statement of *)
(* line 215 has no indented body (lines 216-255 sit at the indentation of  *)
(* the `for` itself).  The model follows the indentation of the text: the  *)
(* body of the loop of line 204 is lines 206-255, and the `for` of line    *)
(* 215 is a statement without a body, which does nothing.                  *)
(*                                                                         *)
(* A text is a sequence of tokens <<kind, value>>; tokens are separated by *)
(* blanks, and the token <<"nl", "">> is a line break.  Brackets and       *)
(* braces attach to their neighbours.  The vocabulary is chosen so that no *)
(* run of several tokens spells the name of a persona.                     *)
(*                                                                         *)
(* run is one coroutine: it gives way to other tasks only where it awaits  *)
(* (the response call and the gather of the bid calls), so the operator's  *)
(* pushes land before run starts or at those points.                       *)
(*                                                                         *)
(* Spec is the sessions without audio, QueuedSpec those whose queue was    *)
(* filled before run starts, AudioSpec those with generate_audio = True.   *)
(***************************************************************************)
EXTENDS Integers, Sequences, FiniteSets, TLC

\* ------------------------------------------------------------------ bounds
MaxTurns == 2
MaxPush == 2
MaxQueued == 16

\* --------------------------------------------------------------- constants
INTERRUPTION_THRESHOLD == 6

\* The number of history lines a prompt shows (ch[-15:], lines 80 and 107).
HISTORY_WINDOW == 15

\* -------------------------------------------------------------- vocabulary
NL == <<"nl", "">>
MU == <<"mark", "NEXT_SPEAKER:">>
ML == <<"mark", "next_speaker:">>
LB == <<"lb", "[">>
RB == <<"rb", "]">>
COLON == <<"p", ":">>
LBRACE == <<"lbrace", "{">>
RBRACE == <<"rbrace", "}">>
W(s) == <<"w", s>>
N(s) == <<"name", s>>

\* The rosters a session is constructed with (Podcast.personas, names only).
\* "Bob" and "bob" are two personas whose names normalise to the same key.
Rosters ==
  { <<>>, <<"Alice">>, <<"Alice", "Bob">>, <<"Alice", "Bob", "Carol">>,
    <<"Bob", "bob">>, <<"Bob", "bob", "Carol">> }

\* str.lower() on the name spellings of the vocabulary.
Lower(s) ==
  CASE s = "Alice" -> "alice"
    [] s = "Bob" -> "bob"
    [] s = "bob" -> "bob"
    [] s = "Bob." -> "bob."
    [] s = "Carol" -> "carol"
    [] s = "Zed" -> "zed"
    [] OTHER -> s

\* re.sub(r'[^a-zA-Z0-9]', '', s).lower() on the spellings of the vocabulary.
Normalize(s) ==
  CASE s = "Alice" -> "alice"
    [] s = "Bob" -> "bob"
    [] s = "bob" -> "bob"
    [] s = "Bob." -> "bob"
    [] s = "Carol" -> "carol"
    [] s = "Zed" -> "zed"
    [] s = "hi" -> "hi"
    [] s = "more" -> "more"
    [] s = "NEXT_SPEAKER:" -> "nextspeaker"
    [] s = "next_speaker:" -> "nextspeaker"
    [] OTHER -> ""

\* str.strip(): leading and trailing white space (line breaks) removed.
RECURSIVE StripLeft(_)
StripLeft(s) ==
  IF s # <<>> /\ Head(s) = NL THEN StripLeft(Tail(s)) ELSE s

RECURSIVE StripRight(_)
StripRight(s) ==
  IF s # <<>> /\ s[Len(s)] = NL THEN StripRight(SubSeq(s, 1, Len(s) - 1)) ELSE s

Strip(s) == StripRight(StripLeft(s))

\* Index of the first token of s that is a NEXT_SPEAKER: marker, 0 if none.
\* anyCase: the regular expression is compiled with re.IGNORECASE.
FirstMarker(s, anyCase) ==
  LET hit(k) == IF anyCase THEN s[k][1] = "mark" ELSE s[k] = MU
  IN IF \E k \in 1..Len(s) : hit(k)
     THEN CHOOSE k \in 1..Len(s) : hit(k) /\ \A j \in 1..(k - 1) : ~hit(j)
     ELSE 0

\* Line 243: re.sub(r"NEXT_SPEAKER:.*", "", r, IGNORECASE | DOTALL).strip()
CleanedResponse(r) ==
  LET k == FirstMarker(r, TRUE)
  IN Strip(IF k = 0 THEN r ELSE SubSeq(r, 1, k - 1))

\* Line 239: r.split("NEXT_SPEAKER:")[0].strip()  (str.split is case-sensitive)
TruncatedResponse(r) ==
  LET k == FirstMarker(r, FALSE)
  IN Strip(IF k = 0 THEN r ELSE SubSeq(r, 1, k - 1))

\* What follows the marker at index k, up to the `$` of the pattern of line 246:
\* \s* eats the leading line breaks, `$` matches at the end of the text or
\* before one final line break.
AfterMarker(r, k) ==
  LET rest == StripLeft(SubSeq(r, k + 1, Len(r)))
  IN IF rest # <<>> /\ rest[Len(rest)] = NL
     THEN SubSeq(rest, 1, Len(rest) - 1) ELSE rest

\* The marker at index k matches r"NEXT_SPEAKER:\s*\[?(.*?)\]?$": `.` matches
\* no line break and re.MULTILINE is not set.
MarkerMatches(r, k) ==
  /\ r[k][1] = "mark"
  /\ \A j \in 1..Len(AfterMarker(r, k)) : AfterMarker(r, k)[j] # NL

\* Line 246: re.search returns the leftmost match; 0 when there is none.
NextSpeakerMatch(r) ==
  IF \E k \in 1..Len(r) : MarkerMatches(r, k)
  THEN CHOOSE k \in 1..Len(r) :
         MarkerMatches(r, k) /\ \A j \in 1..(k - 1) : ~MarkerMatches(r, j)
  ELSE 0

\* group(1) of the match at marker k: \[? takes an opening bracket, the lazy
\* (.*?) stops before one closing bracket at the end.
Candidate(r, k) ==
  LET a == AfterMarker(r, k)
      b == IF a # <<>> /\ Head(a) = LB THEN Tail(a) ELSE a
  IN IF b # <<>> /\ b[Len(b)] = RB THEN SubSeq(b, 1, Len(b) - 1) ELSE b

\* Line 248: normalized_candidate, as the sequence of the non-empty normalised
\* pieces of the candidate (their concatenation is the Python string).
NormalizedCandidate(c) ==
  LET IsPiece(t) == Normalize(t[2]) # ""
      pieces == SelectSeq(c, IsPiece)
  IN [j \in 1..Len(pieces) |-> Normalize(pieces[j][2])]

\* Line 249: persona_map; a later persona overwrites an equal key.
PersonaMapKeys(ps) == { Normalize(ps[j]) : j \in 1..Len(ps) }

PersonaMap(ps) ==
  [key \in PersonaMapKeys(ps) |->
     LET last == CHOOSE j \in 1..Len(ps) :
                   /\ Normalize(ps[j]) = key
                   /\ \A h \in (j + 1)..Len(ps) : Normalize(ps[h]) # key
     IN ps[last]]

\* A fan-out that asks the speaker too.
EveryPersona(ps, current) == ps

\* Lines 253 and 255: the list random.choice draws from.
OtherPersonas(ps, current) ==
  SelectSeq(ps, LAMBDA p : p # current)

\* ------------------------------------------------------- Character._call_ollama
\* An HTTP outcome: the post raised (exc), or a status and a body.
HttpExc == [exc |-> TRUE, status |-> 0, body |-> <<>>]
HttpStatus(code, text) == [exc |-> FALSE, status |-> code, body |-> text]

ErrConnection == << W("[Error:"), W("Connection"), W("Failed]") >>
ErrApi(status) == << W("[Error:"), W("API"), W("Error"), <<"code", status>> >>

\* Line 73: re.sub(rf"^\s*{name}[:,]?\s*", "", full_response, IGNORECASE).strip()
StripNamePrefix(name, s) ==
  IF s # <<>> /\ Head(s)[1] = "name" /\ Lower(Head(s)[2]) = Lower(name)
  THEN LET t == Tail(s)
       IN Strip(IF t # <<>> /\ Head(t) = COLON THEN Tail(t) ELSE t)
  ELSE Strip(s)

\* Lines 64-77: never raises, an error becomes an inline bracketed text.
CallOllama(name, http) ==
  IF http.exc THEN ErrConnection
  ELSE IF http.status = 200 THEN StripNamePrefix(name, Strip(http.body))
  ELSE ErrApi(http.status)

\* ------------------------------------------------ Character._robust_json_parse
\* A bid reply holds brace tokens (which attach to their neighbours) and field
\* tokens: <<"imp", n>> is "importance": n, <<"impbad", s>> is "importance"
\* with a text that is no integer, <<"txt", s>> is "interruption_text": s.
IsField(t) == t[1] \in {"imp", "impbad", "txt"}

\* Line 100: re.search(r"\{{.*?\}}", r, re.DOTALL).  The pattern is a plain raw
\* string, so it asks for two opening braces, a lazy filler and two closing
\* braces.  The result is <<first, last>> of group(0), or <<0, 0>>.
DoubleBraceSearch(r) ==
  LET Opens(k) == k + 1 <= Len(r) /\ r[k] = LBRACE /\ r[k + 1] = LBRACE
      Closes(k, j) == j >= k + 2 /\ j + 1 <= Len(r) /\ r[j] = RBRACE /\ r[j + 1] = RBRACE
      Hit(k) == Opens(k) /\ \E j \in 1..Len(r) : Closes(k, j)
  IN IF \E k \in 1..Len(r) : Hit(k)
     THEN LET k == CHOOSE k \in 1..Len(r) : Hit(k) /\ \A h \in 1..(k - 1) : ~Hit(h)
              j == CHOOSE j \in 1..Len(r) :
                     Closes(k, j) /\ \A h \in 1..(j - 1) : ~Closes(k, h)
          IN <<k, j + 1>>
     ELSE <<0, 0>>

\* The pattern a single-brace JSON object would need: r"\{.*?\}".
SingleBraceSearch(r) ==
  LET Hit(k) == r[k] = LBRACE /\ \E j \in (k + 1)..Len(r) : r[j] = RBRACE
  IN IF \E k \in 1..Len(r) : Hit(k)
     THEN LET k == CHOOSE k \in 1..Len(r) : Hit(k) /\ \A h \in 1..(k - 1) : ~Hit(h)
              j == CHOOSE j \in (k + 1)..Len(r) :
                     r[j] = RBRACE /\ \A h \in (k + 1)..(j - 1) : r[h] # RBRACE
          IN <<k, j>>
     ELSE <<0, 0>>

BraceSearch(r) == DoubleBraceSearch(r)

\* json.loads: an object is one opening brace, fields, one closing brace;
\* anything else is a JSONDecodeError (ok = FALSE).
JsonLoads(js) ==
  IF /\ Len(js) >= 2
     /\ js[1] = LBRACE
     /\ js[Len(js)] = RBRACE
     /\ \A k \in 2..(Len(js) - 1) : IsField(js[k])
  THEN [ok |-> TRUE, fields |-> SubSeq(js, 2, Len(js) - 1)]
  ELSE [ok |-> FALSE, fields |-> <<>>]

\* Lines 98-104: the parsed dict, or None (ok = FALSE).
RobustJsonParse(r) ==
  LET m == BraceSearch(r)
  IN IF m = <<0, 0>> THEN [ok |-> FALSE, fields |-> <<>>]
     ELSE JsonLoads(SubSeq(r, m[1], m[2]))

\* ------------------------------------------------ Character.bid_for_interruption
NoBid ==
  [some |-> FALSE, importance |-> 0, interruption_text |-> <<>>, interrupter_name |-> ""]

Returned(b) == [raised |-> "none", bid |-> b]
Raised(e) == [raised |-> e, bid |-> NoBid]

\* Lines 105-114.  `if not bd` also sends an empty dict to None.  The arguments
\* of the constructor are evaluated first (int() of a text that is no integer
\* raises ValueError, which is caught); the constructor is then called with the
\* keyword interrupt_text, which InterruptionBid (line 56) does not have: a
\* TypeError, which `except (ValueError, KeyError)` does not catch.
BidForInterruption(name, http) ==
  LET r == CallOllama(name, http)
      bd == RobustJsonParse(r)
  IN IF ~bd.ok \/ bd.fields = <<>> THEN Returned(NoBid)
     ELSE IF \E k \in 1..Len(bd.fields) : bd.fields[k][1] = "impbad"
          THEN Returned(NoBid)
          ELSE Raised("TypeError")

\* ------------------------------------------------------------ collaborators
Hi == W("hi")

Ok(body) == HttpStatus(200, body)

\* Bodies of the response collaborator.
RBracketBob == << Hi, MU, LB, N("Bob"), RB >>
RPrefixCarol == << N("Alice"), COLON, Hi, MU, N("Carol") >>
RAlice == << Hi, MU, N("Alice") >>
RNone == << Hi >>
RZed == << Hi, MU, N("Zed") >>
RTrailing == << Hi, MU, N("Bob"), NL, W("more") >>
RLowerBob == << Hi, ML, N("bob") >>
RBobDot == << Hi, MU, N("Bob.") >>

\* Bodies of the bid collaborator.
BNoJson == << W("no") >>
BJson(n) == << LBRACE, <<"imp", n>>, <<"txt", "Wait!">>, RBRACE >>
BNonInt == << LBRACE, <<"impbad", "high">>, <<"txt", "Wait!">>, RBRACE >>
BDouble == << LBRACE, LBRACE, <<"imp", 8>>, <<"txt", "Wait!">>, RBRACE, RBRACE >>

\* The model backends a session may run against; a backend is known by the
\* outcomes it produces for the response calls and for the bid calls.
Backends == {"down", "nominating", "rambling", "spelling", "bidding"}

ResponseOutcomes(b) ==
  CASE b = "down" -> {HttpExc, HttpStatus(500, <<>>)}
    [] b = "nominating" -> {Ok(RBracketBob), Ok(RPrefixCarol), Ok(RAlice)}
    [] b = "rambling" -> {Ok(RNone), Ok(RZed), Ok(RTrailing)}
    [] b = "spelling" -> {Ok(RLowerBob), Ok(RBobDot)}
    [] b = "bidding" -> {Ok(RBracketBob)}

BidOutcomes(b) ==
  CASE b = "down" -> {HttpExc, HttpStatus(500, <<>>)}
    [] b = "nominating" -> {Ok(BNoJson), Ok(BJson(1))}
    [] b = "rambling" -> {Ok(BNoJson)}
    [] b = "spelling" -> {Ok(BNoJson)}
    [] b = "bidding" -> {Ok(BJson(8)), Ok(BJson(9)), Ok(BNonInt), Ok(BDouble)}

\* -------------------------------------------------------------------- state
VARIABLES
  personas,              \* Podcast.personas (names)
  num_turns,             \* Podcast.num_turns
  injection_queue,       \* Podcast.injection_queue
  transcript,            \* Podcast.transcript
  conversation_history,  \* Podcast.conversation_history
  line_idx,              \* run: line_idx
  current_speaker_name,  \* run: current_speaker_name
  i,                     \* run: number of loop iterations begun and finished
  potential_response,    \* run: potential_response
  bid_tasks,             \* run: bid_tasks, the personas asked for a bid
  all_bids,              \* run: the results of the bid calls, as they return
  pc,                    \* where run stands
  raised,                \* the exception that left run, "none" if none
  saved,                 \* the final dump was written
  diskOk,                \* the files of the session can be written
  pushed,                \* number of lines the operator has pushed
  backend,               \* the model backend of the session
  analytics,             \* Podcast.analytics
  generate_audio,        \* Podcast.generate_audio
  tts_tasks,             \* the tasks _add_to_transcript has created (line 171)
  generated_audio_files, \* Podcast.generated_audio_files (line indices of the clips)
  clip_list,             \* the clips _finalize_audio has written to its file list
  turn                   \* what the current (or last) loop iteration has done

vars ==
  << personas, num_turns, injection_queue, transcript, conversation_history,
     line_idx, current_speaker_name, i, potential_response, bid_tasks, all_bids,
     pc, raised, saved, diskOk, pushed, backend, analytics, generate_audio,
     tts_tasks, generated_audio_files, clip_list, turn >>

Welcome == << W("Welcome!") >>
InjectedLine(n) == << <<"inj", n>> >>
\* A bid call that has not returned: tr is the response and ch the window of
\* history lines its prompt is built from.
Pending == [done |-> FALSE, bid |-> NoBid, reply |-> HttpExc, tr |-> <<>>, ch |-> <<>>]
NoTurn ==
  [startLen |-> 0, dequeued |-> 0, speaker |-> "", responded |-> FALSE,
   bidRequests |-> 0, committed |-> FALSE, interrupted |-> FALSE,
   selection |-> "none", window |-> <<>>]

\* A prompt that shows the whole history.
WholeHistory(ch) == ch

\* Lines 80 and 107: ch[-15:], the last lines of the history, at most 15.
HistoryWindow(ch) ==
  IF Len(ch) <= HISTORY_WINDOW THEN ch
  ELSE SubSeq(ch, Len(ch) - HISTORY_WINDOW + 1, Len(ch))

\* The part of the state the statements of run thread through; turn_no is the
\* number of the turn the statements belong to (i + 1, 0 before the loop).
Mem ==
  [transcript |-> transcript, conversation_history |-> conversation_history,
   line_idx |-> line_idx, injection_queue |-> injection_queue, raised |-> "none",
   turn_no |-> IF pc = "start" THEN 0 ELSE i + 1, tts_tasks |-> tts_tasks]

\* f"{speaker}: {line}"
HistoryLine(speaker, line) == << <<"spk", speaker>> >> \o line

\* An append that keeps the entry only when the log line could be written.
AddToTranscriptAfterWrite(m, speaker, line, line_index) ==
  IF m.raised # "none" THEN m
  ELSE IF ~diskOk THEN [m EXCEPT !.raised = "OSError"]
  ELSE [m EXCEPT
          !.transcript = Append(@, [speaker |-> speaker, line |-> line,
                                    line_index |-> line_index,
                                    turn |-> m.turn_no]),
          !.conversation_history = Append(@, HistoryLine(speaker, line))]

\* Lines 165-171.  The entry is in memory before the log file is opened; open()
\* is not guarded, so a failing write raises OSError out of run.  An entry
\* also records the turn it was appended in.  With generate_audio, a task is
\* created for the line (line 171); it does not run before run next awaits.
AddToTranscript(m, speaker, line, line_index) ==
  IF m.raised # "none" THEN m
  ELSE [m EXCEPT
          !.transcript = Append(@, [speaker |-> speaker, line |-> line,
                                    line_index |-> line_index,
                                    turn |-> m.turn_no]),
          !.conversation_history = Append(@, HistoryLine(speaker, line)),
          !.raised = IF diskOk THEN "none" ELSE "OSError",
          !.tts_tasks = IF diskOk /\ generate_audio
                        THEN Append(@, [line_index |-> line_index,
                                        speaker |-> speaker, line |-> line,
                                        status |-> "running"])
                        ELSE @]

\* line_idx += 1, when the statement before it did not raise.
Bump(m) == IF m.raised # "none" THEN m ELSE [m EXCEPT !.line_idx = @ + 1]

\* The drain loop without its line_idx += 1 (line 211 dropped).
RECURSIVE DrainQueueNoBump(_)
DrainQueueNoBump(m) ==
  IF m.raised # "none" \/ m.injection_queue = <<>> THEN m
  ELSE LET injection_text == Head(m.injection_queue)
           got == [m EXCEPT !.injection_queue = Tail(@)]
       IN DrainQueueNoBump(AddToTranscript(got, "Director", injection_text, got.line_idx))

\* Lines 206-213: the whole queue is taken, every line as "Director".
RECURSIVE DrainQueue(_)
DrainQueue(m) ==
  IF m.raised # "none" \/ m.injection_queue = <<>> THEN m
  ELSE LET injection_text == Head(m.injection_queue)
           got == [m EXCEPT !.injection_queue = Tail(@)]
       IN DrainQueue(Bump(AddToTranscript(got, "Director", injection_text, got.line_idx)))

\* Lines 217-226: one more line, as "Moderator", if the queue is not empty.
InjectionCheck(m) ==
  IF m.raised # "none" \/ m.injection_queue = <<>> THEN m
  ELSE LET injection_text == Head(m.injection_queue)
           got == [m EXCEPT !.injection_queue = Tail(@)]
       IN Bump(AddToTranscript(got, "Moderator", injection_text, got.line_idx))

Range(f) == { f[k] : k \in DOMAIN f }

\* Line 233: interrupt_bids = [b for b in all_bids if b and b.importance >= 6]
InterruptBids(bids) ==
  SelectSeq(bids, LAMBDA b : b.some /\ b.importance >= INTERRUPTION_THRESHOLD)

\* Line 237: max(interrupt_bids, key=...) returns the first maximal element.
WinningBid(bids) ==
  LET k == CHOOSE k \in 1..Len(bids) :
             /\ \A j \in 1..Len(bids) : bids[j].importance <= bids[k].importance
             /\ \A j \in 1..(k - 1) : bids[j].importance < bids[k].importance
  IN bids[k]

\* Lines 247 and 250: there is a match and its normalised candidate is a key of
\* persona_map whose persona is not the current speaker.
NominationAccepted(ps, current, r) ==
  LET k == NextSpeakerMatch(r)
      nc == NormalizedCandidate(Candidate(r, k))
  IN /\ k # 0
     /\ Len(nc) = 1
     /\ nc[1] \in PersonaMapKeys(ps)
     /\ PersonaMap(ps)[nc[1]] # current

\* The selection without the test against current_speaker_name of line 250.
NextSpeakerChoicesAnyMatch(ps, current, r) ==
  LET k == NextSpeakerMatch(r)
      nc == NormalizedCandidate(Candidate(r, k))
  IN IF k # 0 /\ Len(nc) = 1 /\ nc[1] \in PersonaMapKeys(ps)
     THEN { PersonaMap(ps)[nc[1]] }
     ELSE Range(OtherPersonas(ps, current))

\* A selection that hands the floor to the candidate as it is spelled.
NextSpeakerChoicesAsSpelled(ps, current, r) ==
  LET k == NextSpeakerMatch(r)
      c == Candidate(r, k)
  IN IF k # 0 /\ Len(c) = 1 THEN { c[1][2] }
     ELSE Range(OtherPersonas(ps, current))

\* Lines 246-255: the speakers the selection may hand the floor to.  One name
\* for an accepted nomination, else the list random.choice draws from; the
\* empty set is random.choice([]), an IndexError.
NextSpeakerChoices(ps, current, r) ==
  LET k == NextSpeakerMatch(r)
      nc == NormalizedCandidate(Candidate(r, k))
  IN IF NominationAccepted(ps, current, r)
     THEN { PersonaMap(ps)[nc[1]] }
     ELSE Range(OtherPersonas(ps, current))

\* Line 124: the analytics __init__ builds, every count 0.  _update_analytics
\* (lines 126-129) is the only code that changes them, and neither
\* _add_to_transcript nor run calls it.
InitialAnalytics(ps) ==
  [word_counts |-> [p \in Range(ps) |-> 0],
   turn_counts |-> [p \in Range(ps) |-> 0],
   interruption_counts |-> [p \in Range(ps) |-> 0]]

\* ------------------------------------------------------------------ actions
Init ==
  /\ personas \in Rosters
  /\ num_turns \in 0..MaxTurns
  /\ injection_queue = <<>>
  /\ transcript = <<>>
  /\ conversation_history = <<>>
  /\ line_idx = 0
  /\ current_speaker_name = ""
  /\ i = 0
  /\ potential_response = <<>>
  /\ bid_tasks = <<>>
  /\ all_bids = <<>>
  /\ pc = "start"
  /\ raised = "none"
  /\ saved = FALSE
  /\ diskOk = TRUE
  /\ pushed = 0
  /\ backend \in Backends
  /\ analytics = InitialAnalytics(personas)
  /\ generate_audio = FALSE
  /\ tts_tasks = <<>>
  /\ generated_audio_files = <<>>
  /\ clip_list = <<>>
  /\ turn = NoTurn

\* The operator puts a line on the queue.  The queue is an asyncio.Queue, fed
\* from the event loop: before run starts, or while run is suspended in an await.
Push ==
  /\ pc \in {"start", "respond", "bids"}
  /\ pushed < MaxPush
  /\ pushed' = pushed + 1
  /\ injection_queue' = Append(injection_queue, InjectedLine(pushed + 1))
  /\ UNCHANGED << tts_tasks, generate_audio, generated_audio_files, clip_list, analytics,
                  backend, personas, num_turns, transcript, conversation_history, line_idx,
                  current_speaker_name, i, potential_response, bid_tasks, all_bids,
                  pc, raised, saved, diskOk, turn >>

\* The log and output files stop being writable.  The file system changes
\* independently of the event loop, so this can happen before any write of run.
DiskFail ==
  /\ pc \in {"start", "loop", "respond", "bids"}
  /\ diskOk
  /\ diskOk' = FALSE
  /\ UNCHANGED << tts_tasks, generate_audio, generated_audio_files, clip_list, analytics,
                  backend, personas, num_turns, injection_queue, transcript,
                  conversation_history, line_idx, current_speaker_name, i,
                  potential_response, bid_tasks, all_bids, pc, raised, saved,
                  pushed, turn >>

\* Lines 197-202: the welcome line, then personas[0] (IndexError when empty).
Start ==
  /\ pc = "start"
  /\ LET m == Bump(AddToTranscript(Mem, "Moderator", Welcome, line_idx))
         err == IF m.raised # "none" THEN m.raised
                ELSE IF personas = <<>> THEN "IndexError" ELSE "none"
     IN /\ transcript' = m.transcript
        /\ tts_tasks' = m.tts_tasks
        /\ conversation_history' = m.conversation_history
        /\ line_idx' = m.line_idx
        /\ raised' = err
        /\ pc' = IF err = "none" THEN "loop" ELSE "aborted"
        /\ current_speaker_name' = IF err = "none" THEN personas[1] ELSE ""
  /\ UNCHANGED << generate_audio, generated_audio_files, clip_list, analytics,
                  backend, personas, num_turns, injection_queue, i, potential_response,
                  bid_tasks, all_bids, saved, diskOk, pushed, turn >>

\* Lines 204-228: an iteration begins: the queue is drained, the injection
\* check runs, and the response of the current speaker is requested.
TurnBegin ==
  /\ pc = "loop"
  /\ i < num_turns
  /\ LET m == InjectionCheck(DrainQueue(Mem))
     IN /\ transcript' = m.transcript
        /\ tts_tasks' = m.tts_tasks
        /\ conversation_history' = m.conversation_history
        /\ line_idx' = m.line_idx
        /\ injection_queue' = m.injection_queue
        /\ raised' = m.raised
        /\ pc' = IF m.raised = "none" THEN "respond" ELSE "aborted"
        /\ turn' = [startLen |-> Len(transcript),
                    dequeued |-> Len(injection_queue) - Len(m.injection_queue),
                    speaker |-> current_speaker_name,
                    responded |-> (m.raised = "none"),
                    bidRequests |-> 0,
                    committed |-> FALSE,
                    interrupted |-> FALSE,
                    selection |-> "none",
                    window |-> IF m.raised = "none"
                               THEN HistoryWindow(m.conversation_history)
                               ELSE <<>>]
  /\ UNCHANGED << generate_audio, generated_audio_files, clip_list, analytics,
                  backend, personas, num_turns, current_speaker_name, i, potential_response,
                  bid_tasks, all_bids, saved, diskOk, pushed >>

\* Lines 228-232: the response has returned; one bid request is issued to
\* every persona but the current speaker.
ResponseReturns(http) ==
  /\ pc = "respond"
  /\ potential_response' = CallOllama(current_speaker_name, http)
  /\ bid_tasks' = OtherPersonas(personas, current_speaker_name)
  /\ all_bids' = [k \in 1..Len(bid_tasks') |->
                    [Pending EXCEPT !.tr = potential_response',
                                    !.ch = HistoryWindow(conversation_history)]]
  /\ turn' = [turn EXCEPT !.bidRequests = Len(bid_tasks')]
  /\ pc' = "bids"
  /\ UNCHANGED << tts_tasks, generate_audio, generated_audio_files, clip_list, analytics,
                  backend, personas, num_turns, injection_queue, transcript,
                  conversation_history, line_idx, current_speaker_name, i, raised,
                  saved, diskOk, pushed >>

\* A bid call that writes the bid it has parsed into the conversation history.
BidReturnsWritingHistory(k, http) ==
  /\ pc = "bids"
  /\ k \in 1..Len(all_bids)
  /\ ~all_bids[k].done
  /\ all_bids' = [all_bids EXCEPT ![k] = [@ EXCEPT !.done = TRUE, !.reply = http]]
  /\ conversation_history' =
       Append(conversation_history, HistoryLine(bid_tasks[k], CallOllama(bid_tasks[k], http)))
  /\ UNCHANGED << tts_tasks, generate_audio, generated_audio_files, clip_list, analytics,
                  backend, personas, num_turns, injection_queue, transcript,
                  line_idx, current_speaker_name, i, potential_response, bid_tasks,
                  pc, raised, saved, diskOk, pushed, turn >>

\* Line 233, asyncio.gather: the k-th bid call returns, in any order.  A call
\* that raises makes gather raise at once, and the exception leaves run.
BidReturns(k, http) ==
  /\ pc = "bids"
  /\ k \in 1..Len(all_bids)
  /\ ~all_bids[k].done
  /\ LET res == BidForInterruption(bid_tasks[k], http)
     IN /\ all_bids' = [all_bids EXCEPT ![k] = [@ EXCEPT !.done = TRUE,
                                                          !.bid = res.bid,
                                                          !.reply = http]]
        /\ raised' = res.raised
        /\ pc' = IF res.raised = "none" THEN "bids" ELSE "aborted"
  /\ UNCHANGED << tts_tasks, generate_audio, generated_audio_files, clip_list, analytics,
                  backend, personas, num_turns, injection_queue, transcript,
                  conversation_history, line_idx, current_speaker_name, i,
                  potential_response, bid_tasks, saved, diskOk, pushed, turn >>

\* Lines 239-240: the truncated response, then the interruption text.
CommitInterrupted(m, speaker, response, winning_bid) ==
  LET m1 == Bump(AddToTranscript(m, speaker, TruncatedResponse(response), m.line_idx))
  IN Bump(AddToTranscript(m1, winning_bid.interrupter_name,
                          winning_bid.interruption_text, m1.line_idx))

\* Lines 243-244: the cleaned response.
CommitPlain(m, speaker, response) ==
  Bump(AddToTranscript(m, speaker, CleanedResponse(response), m.line_idx))

\* Lines 233-255: all bid calls have returned; arbitration, commit, hand-off.
Commit ==
  /\ pc = "bids"
  /\ \A k \in 1..Len(all_bids) : all_bids[k].done
  /\ LET bids == [k \in 1..Len(all_bids) |-> all_bids[k].bid]
         interrupt_bids == InterruptBids(bids)
         interrupted == interrupt_bids # <<>>
         m == IF interrupted
              THEN CommitInterrupted(Mem, current_speaker_name, potential_response,
                                     WinningBid(interrupt_bids))
              ELSE CommitPlain(Mem, current_speaker_name, potential_response)
         nexts == IF interrupted
                  THEN { WinningBid(interrupt_bids).interrupter_name }
                  ELSE NextSpeakerChoices(personas, current_speaker_name,
                                          potential_response)
         err == IF m.raised # "none" THEN m.raised
                ELSE IF nexts = {} THEN "IndexError" ELSE "none"
     IN /\ transcript' = m.transcript
        /\ tts_tasks' = m.tts_tasks
        /\ conversation_history' = m.conversation_history
        /\ line_idx' = m.line_idx
        /\ raised' = err
        /\ pc' = IF err = "none" THEN "loop" ELSE "aborted"
        /\ i' = IF err = "none" THEN i + 1 ELSE i
        /\ \E next \in (IF err = "none" THEN nexts ELSE {current_speaker_name}) :
             current_speaker_name' = next
        /\ turn' = [turn EXCEPT
                      !.committed = (err = "none"),
                      !.interrupted = interrupted,
                      !.selection =
                        IF m.raised # "none" \/ interrupted THEN "none"
                        ELSE IF NominationAccepted(personas, current_speaker_name,
                                                   potential_response)
                             THEN "nominated" ELSE "fallback"]
  /\ UNCHANGED << generate_audio, generated_audio_files, clip_list, analytics,
                  backend, personas, num_turns, injection_queue, potential_response,
                  bid_tasks, all_bids, saved, diskOk, pushed >>

\* Lines 258-262: the final dump; a failing write is caught and logged.  With
\* generate_audio it follows _finalize_audio (line 257).
Finalize ==
  /\ \/ pc = "loop" /\ i = num_turns /\ ~generate_audio
     \/ pc = "dump"
  /\ saved' = diskOk
  /\ pc' = "done"
  /\ UNCHANGED << tts_tasks, generate_audio, generated_audio_files, clip_list, analytics,
                  backend, personas, num_turns, injection_queue, transcript,
                  conversation_history, line_idx, current_speaker_name, i,
                  potential_response, bid_tasks, all_bids, raised, diskOk, pushed,
                  turn >>

Next ==
  \/ Push
  \/ DiskFail
  \/ Start
  \/ TurnBegin
  \/ \E http \in ResponseOutcomes(backend) : ResponseReturns(http)
  \/ \E k \in 1..Len(all_bids), http \in BidOutcomes(backend) : BidReturns(k, http)
  \/ Commit
  \/ Finalize

Spec == Init /\ [][Next]_vars

\* ------------------------------------------------------------------- audio
\* Lines 131-136: the personas with a speaker WAV; every persona has one here.
\* "Moderator" and "Director" are not personas and have none.
SpeakerWavs(ps) == Range(ps)

\* Lines 32-39, clean_text_for_tts: bracketed remarks are removed (an inline
\* error line is one bracketed remark) and only plain words are kept.
CleanTextForTts(line) ==
  IF line # <<>> /\ line[1] = W("[Error:") THEN <<>>
  ELSE SelectSeq(line, LAMBDA t : t[1] \in {"w", "name", "inj", "code"})

\* Lines 148-163: how the task of a line can end: skipped (no WAV, or nothing
\* left to say), a clip, or a failed TTS process.
TtsOutcomes(task) ==
  IF task.speaker \notin SpeakerWavs(personas) \/ CleanTextForTts(task.line) = <<>>
  THEN {"skipped"}
  ELSE {"clip", "failed"}

\* Lines 148-163: _generate_audio_for_line runs to its end.  A task runs only
\* while run is suspended in an await; a clip is appended to
\* generated_audio_files when its process has ended (line 162).
TtsFinishes(k, outcome) ==
  /\ generate_audio
  /\ pc \in {"respond", "bids", "sleep"}
  /\ k \in 1..Len(tts_tasks)
  /\ tts_tasks[k].status = "running"
  /\ outcome \in TtsOutcomes(tts_tasks[k])
  /\ tts_tasks' = [tts_tasks EXCEPT ![k].status = outcome]
  /\ generated_audio_files' =
       IF outcome = "clip" THEN Append(generated_audio_files, tts_tasks[k].line_index)
       ELSE generated_audio_files
  /\ UNCHANGED << personas, num_turns, injection_queue, transcript, conversation_history,
                  line_idx, current_speaker_name, i, potential_response, bid_tasks,
                  all_bids, pc, raised, saved, diskOk, pushed, backend, analytics,
                  generate_audio, clip_list, turn >>

\* Lines 257 and 174-178: _finalize_audio returns at once when no clip has been
\* generated so far; else it sleeps two seconds.
FinalizeAudioCheck ==
  /\ generate_audio
  /\ pc = "loop"
  /\ i = num_turns
  /\ pc' = IF generated_audio_files = <<>> THEN "dump" ELSE "sleep"
  /\ UNCHANGED << personas, num_turns, injection_queue, transcript, conversation_history,
                  line_idx, current_speaker_name, i, potential_response, bid_tasks,
                  all_bids, raised, saved, diskOk, pushed, backend, analytics,
                  generate_audio, tts_tasks, generated_audio_files, clip_list, turn >>

\* The decimal digits of a line index, closed by the "." of ".wav", which sorts
\* before every digit.
PathKey(n) == IF n < 10 THEN << n, -1 >> ELSE << n \div 10, n % 10, -1 >>

\* "line_<a>.wav" < "line_<b>.wav" as strings.
PathBefore(a, b) ==
  \E k \in 1..Len(PathKey(a)) :
    /\ k <= Len(PathKey(b))
    /\ \A j \in 1..(k - 1) : PathKey(a)[j] = PathKey(b)[j]
    /\ PathKey(a)[k] < PathKey(b)[k]

\* Line 179: generated_audio_files.sort().
SortedPaths(files) ==
  LET S == Range(files)
      Rank(x) == 1 + Cardinality({ y \in S : PathBefore(y, x) })
  IN [k \in 1..Cardinality(S) |-> CHOOSE x \in S : Rank(x) = k]

\* Lines 178-194: the sleep is over; the clips generated so far are sorted and
\* written to the file list (an open() that is not guarded), and combined.
FinalizeAudioCombine ==
  /\ pc = "sleep"
  /\ generated_audio_files' = SortedPaths(generated_audio_files)
  /\ clip_list' = IF diskOk THEN generated_audio_files' ELSE clip_list
  /\ raised' = IF diskOk THEN "none" ELSE "OSError"
  /\ pc' = IF diskOk THEN "dump" ELSE "aborted"
  /\ UNCHANGED << personas, num_turns, injection_queue, transcript, conversation_history,
                  line_idx, current_speaker_name, i, potential_response, bid_tasks,
                  all_bids, saved, diskOk, pushed, backend, analytics, generate_audio,
                  tts_tasks, turn >>

\* Sessions with generate_audio.
AudioInit ==
  /\ personas = <<"Alice", "Bob">>
  /\ num_turns \in 0..MaxTurns
  /\ injection_queue = <<>>
  /\ transcript = <<>>
  /\ conversation_history = <<>>
  /\ line_idx = 0
  /\ current_speaker_name = ""
  /\ i = 0
  /\ potential_response = <<>>
  /\ bid_tasks = <<>>
  /\ all_bids = <<>>
  /\ pc = "start"
  /\ raised = "none"
  /\ saved = FALSE
  /\ diskOk = TRUE
  /\ pushed = 0
  /\ backend \in {"rambling", "down"}
  /\ analytics = InitialAnalytics(personas)
  /\ generate_audio = TRUE
  /\ tts_tasks = <<>>
  /\ generated_audio_files = <<>>
  /\ clip_list = <<>>
  /\ turn = NoTurn

AudioNext ==
  \/ Next
  \/ \E k \in 1..Len(tts_tasks), outcome \in {"skipped", "clip", "failed"} :
       TtsFinishes(k, outcome)
  \/ FinalizeAudioCheck
  \/ FinalizeAudioCombine

AudioSpec == AudioInit /\ [][AudioNext]_vars

\* Sessions whose queue already holds lines when run starts: the queue is an
\* argument of the constructor, and its owner may have filled it before.
QueuedInit ==
  /\ personas = <<"Alice", "Bob">>
  /\ num_turns \in 1..MaxTurns
  /\ \E n \in 0..MaxQueued :
       /\ injection_queue = [k \in 1..n |-> InjectedLine(k)]
       /\ pushed = n
  /\ transcript = <<>>
  /\ conversation_history = <<>>
  /\ line_idx = 0
  /\ current_speaker_name = ""
  /\ i = 0
  /\ potential_response = <<>>
  /\ bid_tasks = <<>>
  /\ all_bids = <<>>
  /\ pc = "start"
  /\ raised = "none"
  /\ saved = FALSE
  /\ diskOk = TRUE
  /\ backend = "rambling"
  /\ analytics = InitialAnalytics(personas)
  /\ generate_audio = FALSE
  /\ tts_tasks = <<>>
  /\ generated_audio_files = <<>>
  /\ clip_list = <<>>
  /\ turn = NoTurn

QueuedSpec == QueuedInit /\ [][Next]_vars

\* ------------------------------------------------------------------ claims
PersonaSet == Range(personas)

\* The turn of the loop that began last has run to its end without raising.
TurnOver == turn.committed

\* Number of entries the turn that began last has appended so far.
TurnAppended == Len(transcript) - turn.startLen

\* C1: the k-th entry appended to the transcript carries sequence index k
\* (counting from 0), the first entry is the Moderator welcome line, and no
\* persona entry precedes it.
C1_IndicesContiguous ==
  /\ \A k \in 1..Len(transcript) : transcript[k].line_index = k - 1
  /\ line_idx \in {Len(transcript), Len(transcript) - 1}
  /\ transcript # <<>> =>
       /\ transcript[1].speaker = "Moderator"
       /\ transcript[1].line = Welcome
       /\ transcript[1].line_index = 0

\* A session that has finished two turns and holds a welcome line, lines taken
\* from the queue and persona entries.
C1_Witness ==
  /\ pc = "done"
  /\ i = 2
  /\ \E k \in 1..Len(transcript) : transcript[k].speaker = "Director"
  /\ \E k \in 1..Len(transcript) : transcript[k].speaker \in PersonaSet
  /\ Len(transcript) >= 5

\* C2: a turn of the loop appends exactly one entry when no interruption occurs
\* in it and exactly two when one occurs.
C2_OneOrTwoEntriesPerTurn ==
  TurnOver => TurnAppended = (IF turn.interrupted THEN 2 ELSE 1)

\* The importance a bid reply states: the reply came with status 200 and is a
\* JSON object with an integer importance; 0 for any other reply.
StatedImportance(http) ==
  LET js == JsonLoads(Strip(http.body))
      imps == { k \in 1..Len(js.fields) : js.fields[k][1] = "imp" }
  IN IF ~http.exc /\ http.status = 200 /\ js.ok /\ imps # {}
     THEN js.fields[CHOOSE k \in imps : \A h \in imps : k <= h][2]
     ELSE 0

\* Some bid reply of the turn states an importance at or above the threshold.
HighBidStated ==
  \E k \in 1..Len(all_bids) :
    StatedImportance(all_bids[k].reply) >= INTERRUPTION_THRESHOLD

\* The first request of the fan-out whose reply states the maximal importance.
FirstMaximalBidder ==
  LET k == CHOOSE k \in 1..Len(all_bids) :
             /\ \A j \in 1..Len(all_bids) :
                  StatedImportance(all_bids[j].reply) <= StatedImportance(all_bids[k].reply)
             /\ \A j \in 1..(k - 1) :
                  StatedImportance(all_bids[j].reply) < StatedImportance(all_bids[k].reply)
  IN bid_tasks[k]

\* C3: in a turn where bids are collected, an interruption occurs if and only
\* if at least one collected bid has importance >= 6.
C3_InterruptionIffHighBid ==
  TurnOver => (turn.interrupted <=> HighBidStated)

\* C4: when bids reach the threshold, the turn is interrupted and the winner is
\* the bidder of maximal importance, the first of the fan-out list among equal
\* maxima.
C4_WinnerIsFirstMaximalBid ==
  (TurnOver /\ HighBidStated) =>
    (turn.interrupted /\ current_speaker_name = FirstMaximalBidder)

\* C5: after a turn that was not interrupted, the speaker chosen is a persona of
\* the roster other than the one who just spoke, whatever the directive was.
C5_NextSpeakerIsAnother ==
  (TurnOver /\ ~turn.interrupted) =>
    /\ current_speaker_name \in PersonaSet
    /\ current_speaker_name # turn.speaker

\* Alice has nominated herself and the floor went to Carol.
C5_Witness ==
  /\ TurnOver
  /\ turn.speaker = "Alice"
  /\ potential_response = RAlice
  /\ current_speaker_name = "Carol"

IsInjected(e) == e.line # <<>> /\ e.line[1][1] = "inj"

\* C6: each turn takes at most one line from the queue, the lines come out in
\* the order they were pushed, and a turn is either an injected turn or a
\* speaking turn, not both.
C6_OneLinePerTurnFifo ==
  /\ turn.dequeued <= 1
  /\ \A j, k \in 1..Len(transcript) :
       (j < k /\ IsInjected(transcript[j]) /\ IsInjected(transcript[k]))
         => transcript[j].line[1][2] < transcript[k].line[1][2]
  /\ TurnOver => ((turn.dequeued = 1) # turn.responded)

\* C7: a turn that takes a line from the queue requests no response and no
\* bids, and leaves the current speaker as it was.
C7_InjectedTurnIsWholeTurn ==
  turn.dequeued > 0 =>
    /\ ~turn.responded
    /\ turn.bidRequests = 0
    /\ TurnOver => current_speaker_name = turn.speaker

\* C8: a session fails only when the roster is empty or a write fails; with an
\* empty roster it aborts before any turn runs.
C8_FailsOnlyOnEmptyRosterOrWrite ==
  /\ raised # "none" => (personas = <<>> \/ raised = "OSError")
  /\ personas = <<>> => (i = 0 /\ ~turn.responded /\ pc \in {"start", "aborted"})

\* C9: whatever a bid call comes back with, bid_for_interruption returns a bid
\* or no bid and does not raise, so no bid call aborts the turn or the session.
C9_BidCallNeverRaises ==
  /\ raised # "TypeError"
  /\ \A k \in 1..Len(all_bids) :
       all_bids[k].done =>
         BidForInterruption(bid_tasks[k], all_bids[k].reply) = Returned(all_bids[k].bid)

\* Two bid calls came back with well-formed JSON bids and the turn went on to
\* its commit.
C9_Witness ==
  /\ TurnOver
  /\ Len(all_bids) = 2
  /\ all_bids[1].reply = Ok(BJson(8))
  /\ all_bids[2].reply = Ok(BJson(9))

\* C10: when the response call of the current speaker fails, the turn commits
\* the inline error line as that speaker's entry, a next speaker is chosen and
\* the session goes on.
C10_ResponseFailureAbsorbed ==
  ( /\ turn.responded
    /\ pc \in {"loop", "done", "aborted"}
    /\ potential_response \in {ErrConnection, ErrApi(500)}
    /\ raised # "OSError" )
  => /\ raised = "none"
     /\ TurnOver
     /\ transcript[Len(transcript)].speaker = turn.speaker
     /\ transcript[Len(transcript)].line = potential_response
     /\ current_speaker_name \in PersonaSet

\* C11: a write that fails never ends the session: run raises no OSError, and a
\* session whose files cannot be written still runs all its turns and ends
\* with the transcript in memory only.
C11_PersistenceFailureNonFatal ==
  /\ raised # "OSError"
  /\ (pc = "done" /\ ~diskOk) => (i = num_turns /\ ~saved)

\* len(line.split()): brackets, colons and braces are written against a
\* neighbouring word and line breaks are white space.
IsWord(t) == t[1] \notin {"nl", "lb", "rb", "p", "lbrace", "rbrace"}

WordCount(line) == Len(SelectSeq(line, IsWord))

RECURSIVE WordsSpokenBy(_, _)
WordsSpokenBy(entries, p) ==
  IF entries = <<>> THEN 0
  ELSE (IF Head(entries).speaker = p THEN WordCount(Head(entries).line) ELSE 0)
       + WordsSpokenBy(Tail(entries), p)

EntriesSpokenBy(p) ==
  Cardinality({ k \in 1..Len(transcript) : transcript[k].speaker = p })

\* C12: for every persona, the word count of the analytics is the number of
\* words of the persona's transcript entries and the turn count is the number
\* of those entries; no reserved role has a turn count.
C12_AnalyticsMatchTranscript ==
  /\ \A p \in PersonaSet :
       /\ analytics.word_counts[p] = WordsSpokenBy(transcript, p)
       /\ analytics.turn_counts[p] = EntriesSpokenBy(p)
  /\ DOMAIN analytics.turn_counts \cap {"Moderator", "Director"} = {}

\* C13: the entries of a turn come after the entries of every earlier turn, and
\* a turn with a winning bid ends with the speaker's truncated response
\* directly followed by the interruption text of the winner.
C13_AppendOrderIsCommitOrder ==
  /\ \A j, k \in 1..Len(transcript) :
       j < k => transcript[j].turn <= transcript[k].turn
  /\ (TurnOver /\ HighBidStated) =>
       /\ TurnAppended >= 2
       /\ transcript[Len(transcript) - 1].speaker = turn.speaker
       /\ transcript[Len(transcript) - 1].line = TruncatedResponse(potential_response)
       /\ transcript[Len(transcript)].speaker = FirstMaximalBidder
       /\ transcript[Len(transcript)].turn = transcript[Len(transcript) - 1].turn

\* C14: after a turn with a winning bid the floor is with the winner, and
\* neither the directive nor the random fallback chose a speaker in that turn.
C14_InterrupterTakesFloor ==
  (TurnOver /\ HighBidStated) =>
    /\ current_speaker_name = FirstMaximalBidder
    /\ turn.selection = "none"

\* C15: no bid is requested before the response of the turn is in; the requests
\* then go to every persona but the speaker, one each; and the commit of the
\* turn finds every request completed.
C15_BidFanOutIsJoinBarrier ==
  /\ pc = "respond" => turn.bidRequests = 0
  /\ (pc = "bids" \/ TurnOver) =>
       /\ turn.bidRequests = Len(bid_tasks)
       /\ Len(bid_tasks) = Cardinality(PersonaSet \ {turn.speaker})
       /\ Range(bid_tasks) = PersonaSet \ {turn.speaker}
       /\ Len(all_bids) = Len(bid_tasks)
  /\ (turn.responded /\ pc \notin {"respond", "bids"}) =>
       \A k \in 1..Len(all_bids) : all_bids[k].done

\* The second bid call has come back first, stating an importance above the
\* threshold, and the turn still waits for the first.
C15_Witness ==
  /\ pc = "bids"
  /\ Len(all_bids) = 2
  /\ ~all_bids[1].done
  /\ all_bids[2].done
  /\ StatedImportance(all_bids[2].reply) >= INTERRUPTION_THRESHOLD

\* C16: from the first turn on, the current speaker is a persona of the roster
\* and not a reserved role, after any hand-off.
C16_SpeakerIsRosterMember ==
  pc \in {"loop", "respond", "bids", "done"} =>
    /\ current_speaker_name \in PersonaSet
    /\ current_speaker_name \notin {"Moderator", "Director"}

\* A response has nominated Zed, who is not in the roster, and the floor was
\* handed off by the random fallback.
C16_Witness ==
  /\ TurnOver
  /\ potential_response = RZed
  /\ turn.selection = "fallback"
  /\ current_speaker_name # turn.speaker

\* C17: with two personas or more, run does not abort, and it reaches its end
\* (the final dump) after exactly num_turns turns.
C17_RunsAllTurnsThenDumps ==
  Len(personas) >= 2 =>
    /\ pc # "aborted"
    /\ i <= num_turns
    /\ pc = "done" => i = num_turns

NoMarker(line) == \A k \in 1..Len(line) : line[k][1] # "mark"

DirectiveNames(r, p) ==
  LET k == NextSpeakerMatch(r)
  IN k # 0 /\ NormalizedCandidate(Candidate(r, k)) = << Normalize(p) >>

\* C19: after a turn that was not interrupted and whose directive names a
\* persona other than the speaker, the floor is with a persona so named, and it
\* was given by the nomination, not by the random fallback.
C19_ValidNominationIsFollowed ==
  LET named == { p \in PersonaSet \ {turn.speaker} :
                   DirectiveNames(potential_response, p) }
  IN (TurnOver /\ ~turn.interrupted /\ named # {}) =>
       /\ current_speaker_name \in named
       /\ turn.selection = "nominated"

InTranscript(n) == { k \in 1..Len(transcript) : transcript[k].line = InjectedLine(n) }

InQueue(n) == { k \in 1..Len(injection_queue) : injection_queue[k] = InjectedLine(n) }

\* C20: every line pushed is once in the transcript or once in the queue, never
\* both and never twice; the lines are in push order in the transcript and in
\* the queue, and those of the transcript were pushed before those of the queue.
C20_PushedLinesKeptOnceInOrder ==
  /\ \A n \in 1..pushed :
       Cardinality(InTranscript(n)) + Cardinality(InQueue(n)) = 1
  /\ \A n, o \in 1..pushed :
       n < o =>
         /\ \A j \in InTranscript(n), k \in InTranscript(o) : j < k
         /\ \A j \in InQueue(n), k \in InQueue(o) : j < k
         /\ InQueue(n) # {} => InTranscript(o) = {}

\* The session is over; the first line pushed is in the transcript and the
\* second, pushed after the last injection check, is still in the queue.
C20_Witness ==
  /\ pc = "done"
  /\ pushed = 2
  /\ InTranscript(1) # {}
  /\ InQueue(2) # {}

\* C21: while the bid calls of a turn are out, the transcript, the history, the
\* pending response, the current speaker and the analytics do not change, and
\* every bid call of the turn was given the pending response and the same
\* window of the history.
C21_BidCollectionReadsOnly ==
  /\ [](pc = "bids" =>
          \A k \in 1..Len(all_bids) :
            /\ all_bids[k].tr = potential_response
            /\ all_bids[k].ch = HistoryWindow(conversation_history))
  /\ [][(pc = "bids" /\ pc' = "bids") =>
          UNCHANGED << transcript, conversation_history, potential_response,
                       current_speaker_name, analytics >>]_vars

\* One bid call of two has returned and the other is still out.
C21_Witness ==
  /\ pc = "bids"
  /\ Len(all_bids) = 2
  /\ all_bids[1].done
  /\ ~all_bids[2].done

\* C22: every transcript entry that holds a line taken from the queue has the
\* speaker "Moderator".
C22_InjectedLinesAreModerator ==
  \A k \in 1..Len(transcript) :
    IsInjected(transcript[k]) => transcript[k].speaker = "Moderator"

\* '<speaker>: <line>' of the last n transcript entries, in commit order.
LastCommitted(n) ==
  [j \in 1..n |->
     HistoryLine(transcript[Len(transcript) - n + j].speaker,
                 transcript[Len(transcript) - n + j].line)]

CommittedWindow ==
  LastCommitted(IF Len(transcript) <= 15 THEN Len(transcript) ELSE 15)

\* C23: the history has one line '<speaker>: <line>' per transcript entry, in
\* the same order, and the window given to the response call and to every bid
\* call is the last min(15, n) committed entries.
C23_HistoryInLockstep ==
  /\ Len(conversation_history) = Len(transcript)
  /\ \A k \in 1..Len(transcript) :
       conversation_history[k] = HistoryLine(transcript[k].speaker, transcript[k].line)
  /\ pc = "respond" => turn.window = CommittedWindow
  /\ pc = "bids" =>
       \A k \in 1..Len(all_bids) : all_bids[k].ch = CommittedWindow

\* More than 15 entries are committed and a bid call is out with a window of 15.
C23_Witness ==
  /\ pc = "bids"
  /\ Len(transcript) > 15
  /\ Len(all_bids) = 1
  /\ Len(all_bids[1].ch) = 15
  /\ all_bids[1].ch[15] = conversation_history[Len(conversation_history)]

\* C24: when _finalize_audio has decided whether there are clips and has built
\* its list, no task that can generate a clip is still running, and every clip
\* that was generated is in the list.
C24_FinalizeWaitsForTts ==
  (generate_audio /\ pc \in {"dump", "done"}) =>
    \A k \in 1..Len(tts_tasks) :
      /\ "clip" \in TtsOutcomes(tts_tasks[k]) => tts_tasks[k].status # "running"
      /\ tts_tasks[k].status = "clip" => tts_tasks[k].line_index \in Range(clip_list)

====
